---------------------------- MODULE Spec2Model ----------------------------
(***************************************************************************)
(* The connection multiplexing loop of pumpkin/src/main.rs: the mio        *)
(* Reactor (poll + registry), the accept-drain on the listener Token, the  *)
(* two Token-keyed registries `clients` and `players`, and the dispatch of *)
(* one readiness event through the Player branch and the Client branch     *)
(* (teardown or promotion).                                                *)
(*                                                                         *)
(* One action is one statement (or one call) of the loop body, so that the *)
(* states between `remove` and `deregister`, between `register` and        *)
(* `insert`, and between `add_player` and `spawn_player` are states of the *)
(* model.  Client, Player and Server live in other files of the crate;     *)
(* their operations are modelled by their contract: poll/process_packets   *)
(* may set the flags `closed` and `make_player` to any value.              *)
(*                                                                         *)
(* Token is a usize; the counter is bounded by MaxConn here, far below the *)
(* width of usize, so the wrap of `current.0 += 1` is outside the model.   *)
(***************************************************************************)
EXTENDS Integers, Sequences, FiniteSets, TLC

\* ------------------------------------------------------------- bounds
\* number of connections that ever reach the listener
MaxConn == 3
\* largest number of events one poll call delivers
MaxBatch == 2

\* ------------------------------------------------------------- constants
\* const SERVER: Token = Token(0)
SERVER == 0

\* every Token value an event can carry: the listener and the connections
Tokens == SERVER .. MaxConn
ConnTokens == Tokens \ {SERVER}

\* the value of `token` while no arm holds one: SERVER never reaches that binding
NoToken == SERVER
\* Option<T>
None == [some |-> FALSE]
Some(x) == [some |-> TRUE, v |-> x]
\* io::Result<()> of main while the loop runs
Running == "running"

VARIABLES
    pc,            \* position of the main loop
    events,        \* the events of the current batch not yet handled (their tokens)
    token,         \* `token` of the arm being executed (minted or event token)
    player_done,   \* `done` of the Player branch (line 171)
    done,          \* `done` of the Client branch (line 190)
    make_player,   \* `make_player` of the Client branch (line 190)
    removed,       \* the Option returned by players.remove / clients.remove
    pending,       \* connections queued on the listener, not yet accepted
    unique_token,  \* the Token counter
    clients,       \* HashMap<Token, Client>
    players,       \* HashMap<Rc<Token>, Rc<RefCell<Player>>>
    registry,      \* poll.registry(): token -> interest
    err,           \* the error main returned, None while running
    minted,        \* history: the Tokens returned by next, in order
    hist,          \* history: per Token, how often each operation was invoked
    snap,          \* history: the state when the current dispatch started
    drain,         \* history: the state when the current accept-drain started
    arrived,       \* history: the number of connections that reached the listener
    processed,     \* history: the packet processors invoked for the current event
    console,       \* the console thread: its position, stdin, `out`, handle_command calls
    rcon           \* the RCON task spawned on the runtime

vars == <<pc, events, token, player_done, done, make_player, removed, pending,
          unique_token, clients, players, registry, err, minted, hist, snap, drain,
          arrived, processed, console, rcon>>

locals == <<token, player_done, done, make_player, removed, processed>>
\* what the main loop never touches: the console thread and the RCON task
side == <<console, rcon>>
maps == <<clients, players, registry>>

\* ------------------------------------------------------------- maps
EmptyMap == [u \in {} |-> 0]
MapInsert(m, k, v) == [u \in DOMAIN m \cup {k} |-> IF u = k THEN v ELSE m[u]]
MapRemove(m, k) == [u \in DOMAIN m \ {k} |-> m[u]]
MapGet(m, k) == IF k \in DOMAIN m THEN Some(m[k]) ELSE None

\* the HashMap calls of the loop body
\* clients.insert(token, client)
clients_insert_Lose(m, k, v) == m
clients_insert(m, k, v) == MapInsert(m, k, v)
\* clients.remove(&token): the map after the call
clients_remove_All(m, k) == EmptyMap
clients_remove_Keep(m, k) == m
clients_remove(m, k) == MapRemove(m, k)
\* players.insert(token, player.clone())
players_insert_Lose(m, k, v) == m
players_insert(m, k, v) == MapInsert(m, k, v)
\* players.remove(&token): the map after the call
players_remove_Keep(m, k) == m
players_remove(m, k) == MapRemove(m, k)

\* ------------------------------------------------------------- next
\* fn next(current: &mut Token) -> Token: returns <<minted token, new counter>>
next_Stuck(current) == <<current, current>>
next_Skip(current) == <<current + 1, current + 1>>
next(current) == <<current, current + 1>>

\* ------------------------------------------------------------- collaborators
\* Client::new(rc_token, connection, addr); the connection is named by the
\* token it was registered under
ClientNew(rc_token, connection) ==
    [token |-> rc_token, connection |-> connection,
     closed |-> FALSE, make_player |-> FALSE]

\* server.add_player(token, client): a Player that owns the Client
add_player(tok, client) == [client |-> client]

NoHist == [clients_remove |-> 0, players_remove |-> 0,
           close_remove |-> 0,
           deregister |-> 0, deregistered |-> 0,
           add_player |-> 0, spawn_player |-> 0, remove_player |-> 0,
           closed_as |-> "none"]

Bump(h, t, field) == [h EXCEPT ![t][field] = @ + 1]

\* ------------------------------------------------------------- reactor
register(reg, tok, interest) == MapInsert(reg, tok, interest)
deregister_Keep(reg, connection) == reg
deregister(reg, connection) == MapRemove(reg, connection)

\* ------------------------------------------------------------- console, RCON
\* largest number of characters on standard input
MaxInput == 4
Chars == {"s", "t", "\n"}
Inputs == UNION {[1 .. n -> Chars] : n \in 0 .. MaxInput}

\* the console thread is not spawned: use_console is false
ConsoleOff == [pc |-> "off", stdin |-> <<>>, out |-> <<>>, lines |-> <<>>,
               calls |-> <<>>]
\* the thread spawned at line 105, about to read its first line of `input`
ConsoleOn(input) == [pc |-> "read", stdin |-> input, out |-> <<>>, lines |-> <<>>,
                     calls |-> <<>>]
\* the RCON task is not spawned: rcon.enabled is false
RconOff == [state |-> "disabled", polled |-> FALSE]
\* the task spawned at line 120, RCONServer::new not yet resolved
RconSpawned == [state |-> "spawned", polled |-> FALSE]

\* ------------------------------------------------------------- Init
\* the main loop before its first poll
InitMain ==
    /\ pc = "poll"
    /\ events = <<>>
    /\ token = NoToken
    /\ player_done = FALSE
    /\ done = FALSE
    /\ make_player = FALSE
    /\ removed = None
    /\ pending = 0
    /\ unique_token = SERVER + 1
    /\ clients = EmptyMap
    /\ players = EmptyMap
    /\ registry = (SERVER :> "READABLE")
    /\ err = Running
    /\ minted = <<>>
    /\ hist = [t \in ConnTokens |-> NoHist]
    /\ snap = None
    /\ drain = None
    /\ arrived = 0
    /\ processed = <<>>

\* console and RCON both disabled by the configuration
Init ==
    /\ InitMain
    /\ console = ConsoleOff
    /\ rcon = RconOff

\* ------------------------------------------------------------- environment
\* a peer connects: the kernel queues it on the listener (bound at line 85)
Connect ==
    /\ pc # "error"
    /\ arrived < MaxConn
    /\ arrived' = arrived + 1
    /\ pending' = pending + 1
    /\ drain' = IF drain = None THEN None
                ELSE [drain EXCEPT !.v.arrivals = @ + 1]
    /\ UNCHANGED <<side, pc, events, locals, unique_token, maps, err, minted, hist,
                   snap>>

\* ------------------------------------------------------------- poll
\* the batches poll can deliver: distinct tokens, at most MaxBatch of them
Distinct(s) == \A i, j \in 1 .. Len(s) : i # j => s[i] # s[j]
Batches ==
    {s \in UNION {[1 .. n -> Tokens] : n \in 0 .. MaxBatch} : Distinct(s)}

\* poll.poll(&mut events, None) returned Ok
PollOk ==
    /\ pc = "poll"
    /\ \E batch \in Batches : events' = batch
    /\ pc' = "events"
    /\ rcon' = IF rcon.state = "panicked" THEN [rcon EXCEPT !.polled = TRUE] ELSE rcon
    /\ UNCHANGED <<console, arrived, locals, pending, unique_token, maps, err, minted,
                   hist, snap, drain>>

\* poll failed and interrupted(&err) holds
PollInterrupted ==
    /\ pc = "poll"
    /\ pc' = "interrupted"
    /\ UNCHANGED <<side, arrived, events, locals, pending, unique_token, maps, err,
                   minted, hist, snap, drain>>

\* the loop without the interrupted(&err) test: every poll error is returned
Continue_Return ==
    /\ pc = "interrupted"
    /\ pc' = "error"
    /\ err' = "poll"
    /\ UNCHANGED <<side, arrived, events, locals, pending, unique_token, maps,
                   minted, hist, snap, drain>>

\* `continue`
Continue ==
    /\ pc = "interrupted"
    /\ pc' = "poll"
    /\ UNCHANGED <<side, arrived, events, locals, pending, unique_token, maps, err,
                   minted, hist, snap, drain>>

\* poll failed with another error: return Err(err)
PollErr ==
    /\ pc = "poll"
    /\ pc' = "error"
    /\ err' = "poll"
    /\ UNCHANGED <<side, arrived, events, locals, pending, unique_token, maps,
                   minted, hist, snap, drain>>

\* the event loop with the arm spawned as a task instead of awaited: the next
\* event is taken while the arm of the last one is suspended
NextEvent_Spawned ==
    /\ pc \in {"events", "player", "client", "spawn"}
    /\ IF events = <<>>
       THEN /\ pc' = "poll"
            /\ UNCHANGED <<events, token, snap, drain>>
       ELSE /\ events' = Tail(events)
            /\ IF Head(events) = SERVER
               THEN /\ pc' = "accept"
                    /\ drain' = Some([n |-> pending, clients |-> DOMAIN clients,
                                      first |-> unique_token, arrivals |-> 0])
                    /\ UNCHANGED <<token, snap>>
               ELSE /\ pc' = "player"
                    /\ token' = Head(events)
                    /\ snap' = Some([clients |-> clients, players |-> players,
                                     registry |-> registry, hist |-> hist,
                                     unique_token |-> unique_token])
                    /\ UNCHANGED drain
    /\ UNCHANGED <<side, arrived, processed, player_done, done, make_player, removed,
                   pending, unique_token, maps, err, minted, hist>>

\* for event in events.iter() { match event.token() { SERVER => ..., token => ... } }
NextEvent ==
    /\ pc = "events"
    /\ IF events = <<>>
       THEN /\ pc' = "poll"
            /\ UNCHANGED <<events, token, snap, drain>>
       ELSE /\ events' = Tail(events)
            /\ IF Head(events) = SERVER
               THEN /\ pc' = "accept"
                    /\ drain' = Some([n |-> pending, clients |-> DOMAIN clients,
                                      first |-> unique_token, arrivals |-> 0])
                    /\ UNCHANGED <<token, snap>>
               ELSE /\ pc' = "player"
                    /\ token' = Head(events)
                    /\ snap' = Some([clients |-> clients, players |-> players,
                                     registry |-> registry, hist |-> hist,
                                     unique_token |-> unique_token])
                    /\ UNCHANGED drain
    /\ UNCHANGED <<side, arrived, processed, player_done, done, make_player, removed,
                   pending, unique_token, maps, err, minted, hist>>

\* ------------------------------------------------------------- accept-drain
\* listener.accept() returned Ok((connection, address))
AcceptOk ==
    /\ pc = "accept"
    /\ pending > 0
    /\ pending' = pending - 1
    /\ pc' = "mint"
    /\ UNCHANGED <<side, arrived, events, locals, unique_token, maps, err, minted,
                   hist, snap, drain>>

\* listener.accept() returned WouldBlock: break
AcceptWouldBlock ==
    /\ pc = "accept"
    /\ pending = 0
    /\ pc' = "events"
    /\ drain' = None
    /\ UNCHANGED <<side, arrived, events, locals, pending, unique_token, maps, err,
                   minted, hist, snap>>

\* the accept match with every error taken as "no more pending": break
AcceptErr_Break ==
    /\ pc = "accept"
    /\ pc' = "events"
    /\ drain' = None
    /\ UNCHANGED <<side, arrived, events, locals, pending, unique_token, maps, err,
                   minted, hist, snap>>

\* listener.accept() returned another error: return Err(e)
AcceptErr ==
    /\ pc = "accept"
    /\ pc' = "error"
    /\ err' = "accept"
    /\ UNCHANGED <<side, arrived, events, locals, pending, unique_token, maps,
                   minted, hist, snap, drain>>

\* let token = next(&mut unique_token)
Mint ==
    /\ pc = "mint"
    /\ token' = next(unique_token)[1]
    /\ unique_token' = next(unique_token)[2]
    /\ minted' = Append(minted, token')
    /\ pc' = "register"
    /\ UNCHANGED <<side, arrived, processed, events, player_done, done, make_player,
                   removed, pending, maps, err, hist, snap, drain>>

\* poll.registry().register(&mut connection, token, READABLE | WRITABLE) succeeded
RegisterOk ==
    /\ pc = "register"
    /\ registry' = register(registry, token, "READABLE|WRITABLE")
    /\ pc' = "insert"
    /\ UNCHANGED <<side, arrived, events, locals, pending, unique_token, clients,
                   players, err, minted, hist, snap, drain>>

\* the registration with its error dropped instead of returned
RegisterErr_Ignore ==
    /\ pc = "register"
    /\ pc' = "insert"
    /\ UNCHANGED <<side, arrived, events, locals, pending, unique_token, maps, err,
                   minted, hist, snap, drain>>

\* ... failed: the `?` returns the error
RegisterErr ==
    /\ pc = "register"
    /\ pc' = "error"
    /\ err' = "register"
    /\ UNCHANGED <<side, arrived, events, locals, pending, unique_token, maps,
                   minted, hist, snap, drain>>

\* clients.insert(token, Client::new(Rc::clone(&rc_token), connection, addr))
ClientInsert ==
    /\ pc = "insert"
    /\ clients' = clients_insert(clients, token, ClientNew(token, token))
    /\ token' = NoToken
    /\ pc' = "accept"
    /\ UNCHANGED <<side, arrived, processed, events, player_done, done, make_player,
                   removed, pending, unique_token, players, registry, err, minted,
                   hist, snap, drain>>

\* ------------------------------------------------------------- Player branch
\* the Player branch with players.get_mut(&token).unwrap(): a Token without a
\* Player ends the loop
PlayerPoll_Unwrap ==
    /\ pc = "player"
    /\ IF token \in DOMAIN players
       THEN \E c \in BOOLEAN :
               /\ players' = [players EXCEPT ![token].client.closed = c]
               /\ player_done' = c
               /\ processed' = Append(processed, "player")
               /\ hist' = IF c THEN [hist EXCEPT ![token].closed_as = "player"]
                          ELSE hist
               /\ pc' = "player_done"
               /\ UNCHANGED err
       ELSE /\ pc' = "error"
            /\ err' = "panic"
            /\ UNCHANGED <<player_done, players, hist, processed>>
    /\ UNCHANGED <<side, arrived, events, token, done, make_player, removed, pending,
                   unique_token, clients, registry, minted, snap, drain>>

\* players.get_mut(&token): player.client.poll(event), player.process_packets(..),
\* done = player.client.closed; false when the Token has no Player
PlayerPoll ==
    /\ pc = "player"
    /\ IF token \in DOMAIN players
       THEN \E c \in BOOLEAN :
               /\ players' = [players EXCEPT ![token].client.closed = c]
               /\ player_done' = c
               /\ processed' = Append(processed, "player")
               /\ hist' = IF c THEN [hist EXCEPT ![token].closed_as = "player"]
                          ELSE hist
       ELSE /\ player_done' = FALSE
            /\ UNCHANGED <<players, hist, processed>>
    /\ pc' = "player_done"
    /\ UNCHANGED <<side, arrived, events, token, done, make_player, removed, pending,
                   unique_token, clients, registry, err, minted, snap, drain>>

\* if done { if let Some(player) = players.remove(&token) { ...
PlayerRemove ==
    /\ pc = "player_done"
    /\ IF player_done
       THEN /\ removed' = MapGet(players, token)
            /\ players' = players_remove(players, token)
            /\ IF removed' # None
               THEN /\ hist' = Bump(Bump(hist, token, "players_remove"),
                                    token, "close_remove")
                    /\ pc' = "remove_player"
               ELSE /\ pc' = "client"
                    /\ UNCHANGED hist
       ELSE /\ pc' = "client"
            /\ UNCHANGED <<removed, players, hist>>
    /\ UNCHANGED <<side, arrived, processed, events, token, player_done, done,
                   make_player, pending, unique_token, clients, registry, err,
                   minted, snap, drain>>

\* the teardown without the notification of the Server
ServerRemovePlayer_Skip ==
    /\ pc = "remove_player"
    /\ pc' = "player_deregister"
    /\ UNCHANGED <<side, arrived, events, locals, pending, unique_token, maps, err,
                   minted, hist, snap, drain>>

\* server.remove_player(&token)
ServerRemovePlayer ==
    /\ pc = "remove_player"
    /\ hist' = Bump(hist, token, "remove_player")
    /\ pc' = "player_deregister"
    /\ UNCHANGED <<side, arrived, events, locals, pending, unique_token, maps, err,
                   minted, snap, drain>>

\* poll.registry().deregister(&mut player.client.connection) succeeded
PlayerDeregisterOk ==
    /\ pc = "player_deregister"
    /\ registry' = deregister(registry, removed.v.client.connection)
    /\ hist' = Bump(Bump(hist, removed.v.client.connection, "deregister"),
                    removed.v.client.connection, "deregistered")
    /\ removed' = None
    /\ pc' = "client"
    /\ UNCHANGED <<side, arrived, processed, events, token, player_done, done,
                   make_player, pending, unique_token, clients, players, err, minted,
                   snap, drain>>

\* ... failed: the `?` returns the error
PlayerDeregisterErr ==
    /\ pc = "player_deregister"
    /\ hist' = Bump(hist, removed.v.client.connection, "deregister")
    /\ pc' = "error"
    /\ err' = "deregister"
    /\ UNCHANGED <<side, arrived, events, locals, pending, unique_token, maps,
                   minted, snap, drain>>

\* ------------------------------------------------------------- Client branch
\* clients.get_mut(&token): client.poll(event), client.process_packets(..),
\* (done, make_player) = (client.closed, client.make_player); (false, false)
\* when the Token has no Client
ClientPoll ==
    /\ pc = "client"
    /\ IF token \in DOMAIN clients
       THEN \E c, m \in BOOLEAN :
               /\ clients' = [clients EXCEPT ![token].closed = c,
                                             ![token].make_player = m]
               /\ done' = c
               /\ make_player' = m
               /\ processed' = Append(processed, "client")
               /\ hist' = IF c THEN [hist EXCEPT ![token].closed_as = "client"]
                          ELSE hist
       ELSE /\ done' = FALSE
            /\ make_player' = FALSE
            /\ UNCHANGED <<clients, hist, processed>>
    /\ pc' = "client_done"
    /\ UNCHANGED <<side, arrived, events, token, player_done, removed, pending,
                   unique_token, players, registry, err, minted, snap, drain>>

\* the branch with the two tests in the other order: if make_player {..} else if done {..}
ClientRemove_PromoteFirst ==
    /\ pc = "client_done"
    /\ IF done \/ make_player
       THEN /\ removed' = MapGet(clients, token)
            /\ clients' = clients_remove(clients, token)
            /\ IF removed' # None
               THEN /\ hist' = IF done
                               THEN Bump(Bump(hist, token, "clients_remove"),
                                         token, "close_remove")
                               ELSE Bump(hist, token, "clients_remove")
                    /\ pc' = IF make_player THEN "promote" ELSE "client_deregister"
               ELSE /\ pc' = "end"
                    /\ UNCHANGED hist
       ELSE /\ pc' = "end"
            /\ UNCHANGED <<removed, clients, hist>>
    /\ UNCHANGED <<side, arrived, processed, events, token, player_done, done,
                   make_player, pending, unique_token, players, registry, err,
                   minted, snap, drain>>

\* if done || make_player { if let Some(mut client) = clients.remove(&token) {
\*     if done {..} else if make_player {..} } }
ClientRemove ==
    /\ pc = "client_done"
    /\ IF done \/ make_player
       THEN /\ removed' = MapGet(clients, token)
            /\ clients' = clients_remove(clients, token)
            /\ IF removed' # None
               THEN /\ hist' = IF done
                               THEN Bump(Bump(hist, token, "clients_remove"),
                                         token, "close_remove")
                               ELSE Bump(hist, token, "clients_remove")
                    /\ pc' = IF done THEN "client_deregister" ELSE "promote"
               ELSE /\ pc' = "end"
                    /\ UNCHANGED hist
       ELSE /\ pc' = "end"
            /\ UNCHANGED <<removed, clients, hist>>
    /\ UNCHANGED <<side, arrived, processed, events, token, player_done, done,
                   make_player, pending, unique_token, players, registry, err,
                   minted, snap, drain>>

\* poll.registry().deregister(&mut client.connection) succeeded
ClientDeregisterOk ==
    /\ pc = "client_deregister"
    /\ registry' = deregister(registry, removed.v.connection)
    /\ hist' = Bump(Bump(hist, removed.v.connection, "deregister"),
                    removed.v.connection, "deregistered")
    /\ removed' = None
    /\ pc' = "end"
    /\ UNCHANGED <<side, arrived, processed, events, token, player_done, done,
                   make_player, pending, unique_token, clients, players, err, minted,
                   snap, drain>>

\* ... failed: the `?` returns the error
ClientDeregisterErr ==
    /\ pc = "client_deregister"
    /\ hist' = Bump(hist, removed.v.connection, "deregister")
    /\ pc' = "error"
    /\ err' = "deregister"
    /\ UNCHANGED <<side, arrived, events, locals, pending, unique_token, maps,
                   minted, snap, drain>>

\* the promotion followed by a second pass over the same event, which delivers
\* it to the Player just created
AddPlayer_Repoll ==
    /\ pc = "promote"
    /\ LET tok == removed.v.token
           player == add_player(tok, removed.v)
       IN /\ players' = players_insert(players, tok, player)
          /\ hist' = Bump(hist, tok, "add_player")
          /\ removed' = Some(player)
    /\ pc' = "player"
    /\ UNCHANGED <<side, arrived, processed, events, token, player_done, done,
                   make_player, pending, unique_token, clients, registry, err,
                   minted, snap, drain>>

\* let token = client.token.clone();
\* let player = server.add_player(token.clone(), client);
\* players.insert(token, player.clone())
AddPlayer ==
    /\ pc = "promote"
    /\ LET tok == removed.v.token
           player == add_player(tok, removed.v)
       IN /\ players' = players_insert(players, tok, player)
          /\ hist' = Bump(hist, tok, "add_player")
          /\ removed' = Some(player)
    /\ pc' = "spawn"
    /\ UNCHANGED <<side, arrived, processed, events, token, player_done, done,
                   make_player, pending, unique_token, clients, registry, err,
                   minted, snap, drain>>

\* server.spawn_player(&mut player).await
SpawnPlayer ==
    /\ pc = "spawn"
    /\ hist' = Bump(hist, removed.v.client.token, "spawn_player")
    /\ removed' = None
    /\ pc' = "end"
    /\ UNCHANGED <<side, arrived, processed, events, token, player_done, done,
                   make_player, pending, unique_token, maps, err, minted, snap, drain>>

\* the end of the `token => { ... }` arm: on to the next event of the batch
EndDispatch ==
    /\ pc = "end"
    /\ token' = NoToken
    /\ player_done' = FALSE
    /\ done' = FALSE
    /\ make_player' = FALSE
    /\ removed' = None
    /\ processed' = <<>>
    /\ snap' = None
    /\ pc' = "events"
    /\ UNCHANGED <<side, arrived, events, pending, unique_token, maps, err, minted,
                   hist, drain>>

\* ------------------------------------------------------------- specification
Next ==
    \/ Connect
    \/ PollOk
    \/ PollInterrupted
    \/ Continue
    \/ PollErr
    \/ NextEvent
    \/ AcceptOk
    \/ AcceptWouldBlock
    \/ AcceptErr
    \/ Mint
    \/ RegisterOk
    \/ RegisterErr
    \/ ClientInsert
    \/ PlayerPoll
    \/ PlayerRemove
    \/ ServerRemovePlayer
    \/ PlayerDeregisterOk
    \/ PlayerDeregisterErr
    \/ ClientPoll
    \/ ClientRemove
    \/ ClientDeregisterOk
    \/ ClientDeregisterErr
    \/ AddPlayer
    \/ SpawnPlayer
    \/ EndDispatch

Spec == Init /\ [][Next]_vars

TypeOK ==
    /\ pc \in {"poll", "interrupted", "events", "accept", "mint", "register",
               "insert", "player", "player_done", "remove_player",
               "player_deregister", "client", "client_done", "client_deregister",
               "promote", "spawn", "end", "error"}
    /\ unique_token \in (SERVER + 1) .. (MaxConn + 1)
    /\ pending \in 0 .. MaxConn
    /\ DOMAIN clients \subseteq ConnTokens
    /\ DOMAIN players \subseteq ConnTokens

\* ------------------------------------------------------------- claims
\* the main loop is between the handling of two events
BetweenEvents == pc \in {"poll", "interrupted", "events"}
\* the dispatch of an event for a connection Token is under way (or ended in an error)
InDispatch == snap.some
Entries == DOMAIN clients \cup DOMAIN players

\* C1: in every reachable state, at every step of the loop body, no Token is a
\* key of both registries: the key sets of `clients` and `players` are disjoint.
C1_OneRegistry == DOMAIN clients \cap DOMAIN players = {}

\* a promotion has just inserted the Player of a Token while other Clients exist
C1_Witness ==
    /\ pc = "spawn"
    /\ token \in DOMAIN players
    /\ token \notin DOMAIN clients
    /\ DOMAIN clients # {}

\* C2: whenever the loop is between the handling of two events, the non-listener
\* Tokens registered with the Reactor are exactly the Tokens that have a Client
\* entry or a Player entry.
C2_RegisteredIffEntry ==
    BetweenEvents => DOMAIN registry \ {SERVER} = Entries

\* between two events, after a close: a Client, a Player and a closed Token
C2_Witness ==
    /\ pc = "events"
    /\ DOMAIN clients # {}
    /\ DOMAIN players # {}
    /\ \E t \in ConnTokens : hist[t].deregistered = 1 /\ t \notin DOMAIN registry

\* C3 as stated: a dispatch that observed make_player = true ends with a Player
\* entry and no Client entry for its Token.
C3_Original ==
    (pc = "end" /\ make_player) =>
        (token \in DOMAIN players /\ token \notin DOMAIN clients)

\* C3 amended: a dispatch that observed make_player = true and closed = false on
\* the Token's Client ends with exactly one Player entry (the map holds one entry
\* per key) and no Client entry for that Token.
C3_Promotion ==
    (pc = "end" /\ make_player /\ ~done) =>
        (token \in DOMAIN players /\ token \notin DOMAIN clients)

\* a promoting dispatch is complete
C3_Witness ==
    /\ pc = "end"
    /\ make_player
    /\ ~done
    /\ token \in DOMAIN snap.v.clients
    /\ token \in DOMAIN players

\* C4: the minted Tokens are strictly increasing, the first is SERVER + 1, none
\* is SERVER, and none is minted twice, also after the connection of an earlier
\* Token was closed.
C4_TokensFresh ==
    /\ \A i, j \in 1 .. Len(minted) : i < j => minted[i] < minted[j]
    /\ \A i, j \in 1 .. Len(minted) : i # j => minted[i] # minted[j]
    /\ \A i \in 1 .. Len(minted) : minted[i] # SERVER
    /\ Len(minted) > 0 => minted[1] = SERVER + 1
    /\ pc = "register" => token = minted[Len(minted)]

\* a Token is minted after the connection of the first Token was closed
C4_Witness ==
    /\ pc = "register"
    /\ Len(minted) >= 2
    /\ hist[minted[1]].deregistered = 1
    /\ token = minted[Len(minted)]
    /\ token > minted[1]

\* the dispatch of an event for Token t has not finished
Handling(t) == InDispatch /\ token = t
\* the Tokens minted since the accept-drain under way started
Drained == drain.v.first .. (unique_token - 1)

\* C5 as stated: a Token observed closed is removed from exactly one of the
\* two registries over the whole run, never from the other one, and deregister
\* is invoked for it exactly once.
C5_Original ==
    \A t \in ConnTokens :
        /\ hist[t].deregister <= 1
        /\ (hist[t].closed_as # "none" /\ ~Handling(t)) =>
              /\ hist[t].deregister = 1
              /\ hist[t].clients_remove + hist[t].players_remove = 1

\* C5 amended: the teardown of a Token observed closed removes it from exactly
\* one registry, the one that holds it then, and invokes deregister for its
\* connection exactly once over the whole run, never a second time; a Token
\* closed as a Client is never removed from the player registry, a Token
\* closed as a Player left the client registry once before, by its promotion;
\* the deregistration takes effect unless that call fails, which ends the loop.
C5_CloseOnce ==
    \A t \in ConnTokens :
        /\ hist[t].deregister <= 1
        /\ hist[t].close_remove <= 1
        /\ hist[t].deregistered <= hist[t].deregister
        /\ hist[t].deregister <= hist[t].close_remove
        /\ (hist[t].closed_as # "none" /\ ~Handling(t)) =>
              /\ hist[t].close_remove = 1
              /\ hist[t].deregister = 1
              /\ hist[t].deregistered = 1
              /\ t \notin DOMAIN registry
              /\ t \notin Entries
        /\ hist[t].closed_as = "client" =>
              /\ hist[t].players_remove = 0
              /\ hist[t].clients_remove <= 1
        /\ hist[t].closed_as = "player" =>
              /\ hist[t].players_remove <= 1
              /\ hist[t].clients_remove = 1
              /\ hist[t].add_player = 1
        /\ (pc = "error" /\ err = "deregister" /\ token = t) =>
              /\ hist[t].close_remove = 1
              /\ hist[t].deregister = 1
              /\ hist[t].deregistered = 0

\* one Token was closed as a Client, another as a Player, both teardowns done,
\* and a later event for one of them has been handled
C5_Witness ==
    /\ pc = "end"
    /\ \E t, u \in ConnTokens :
          /\ hist[t].closed_as = "client"
          /\ hist[u].closed_as = "player"
          /\ hist[t].deregistered = 1
          /\ hist[u].deregistered = 1
          /\ token \in {t, u}
          /\ hist = snap.v.hist

\* C6: the dispatch of an event for a Token that has neither a Client nor a
\* Player entry changes neither registry, registers and deregisters nothing,
\* invokes no Server operation, mints no Token and does not end in an error.
C6_StrayNoOp ==
    (InDispatch /\ token \notin DOMAIN snap.v.clients \cup DOMAIN snap.v.players) =>
        /\ clients = snap.v.clients
        /\ players = snap.v.players
        /\ registry = snap.v.registry
        /\ hist = snap.v.hist
        /\ unique_token = snap.v.unique_token
        /\ removed = None
        /\ pc # "error"
        /\ err = Running

\* a stray event for a Token closed earlier has been handled to its end, and
\* so has one for a Token never accepted
C6_WitnessClosed ==
    /\ pc = "end"
    /\ token \notin DOMAIN snap.v.clients \cup DOMAIN snap.v.players
    /\ hist[token].deregistered = 1
C6_Witness ==
    /\ pc = "end"
    /\ token \notin DOMAIN snap.v.clients \cup DOMAIN snap.v.players
    /\ \A i \in 1 .. Len(minted) : minted[i] # token
    /\ Entries # {}

\* the accept-drain under way started with N pending connections, none arrived
\* since, and the next accept call finds the queue empty
DrainDone == pc = "accept" /\ drain.some /\ drain.v.arrivals = 0 /\ pending = 0

\* what the drain has done when it reaches the top of its loop: one new Client
\* entry per accepted connection, under the Tokens minted since the drain
\* started, each registered for read+write interest, nothing else touched
DrainInvariant ==
    (pc = "accept" /\ drain.some) =>
        /\ unique_token - drain.v.first = drain.v.n + drain.v.arrivals - pending
        /\ DOMAIN clients = drain.v.clients \cup Drained
        /\ drain.v.clients \cap Drained = {}
        /\ \A t \in Drained :
              /\ t \in DOMAIN registry
              /\ registry[t] = "READABLE|WRITABLE"
              /\ \E i \in 1 .. Len(minted) : minted[i] = t
              /\ t \notin DOMAIN players
        /\ err = Running

\* C7: a listener event with N connections pending, every accept and
\* registration succeeding: when accept reports WouldBlock the drain has
\* inserted exactly N new Client entries, each under a distinct freshly minted
\* Token registered for read+write interest, and the loop goes on to the next
\* event without an error.
C7_AcceptDrain ==
    /\ [](DrainInvariant)
    /\ [](DrainDone => Cardinality(DOMAIN clients \ drain.v.clients) = drain.v.n)
    /\ [][(DrainDone /\ pc' # "accept" /\ err' = Running) =>
             (pc' = "events" /\ UNCHANGED <<clients, players, registry, unique_token>>)]_vars

\* a drain that found two connections pending is about to see WouldBlock
C7_Witness ==
    /\ DrainDone
    /\ drain.v.n >= 2
    /\ Cardinality(DOMAIN clients \ drain.v.clients) = drain.v.n
    /\ drain.v.clients # {}

\* C8 as stated: while a teardown is under way there is no state in which the
\* entry of the closed Token has left its registry and its connection is still
\* registered with the Reactor.
C8_DeregisterBeforeRemove ==
    \A t \in ConnTokens :
        (InDispatch /\ hist[t].close_remove > snap.v.hist[t].close_remove) =>
            t \notin DOMAIN registry

\* C9: Unregistered -> Client -> (Player -> Closed | Closed).  A Client entry
\* is only created for a Token minted by the accept under way; a Player entry
\* for t is only created by the promotion of the Client entry t had when the
\* dispatch started; a Token closed as a Client never has a Player entry; a
\* Token that got a Player entry never has a Client entry again.
C9_Lifecycle ==
    /\ [](\A t \in ConnTokens :
            /\ hist[t].closed_as = "client" =>
                  (t \notin DOMAIN players /\ hist[t].add_player = 0)
            /\ hist[t].add_player > 0 => t \notin DOMAIN clients
            /\ t \in DOMAIN players => hist[t].clients_remove = 1)
    /\ [][\A t \in ConnTokens :
            /\ (t \in DOMAIN players' /\ t \notin DOMAIN players) =>
                  /\ pc = "promote"
                  /\ t = token
                  /\ t \in DOMAIN snap.v.clients
                  /\ removed.some
                  /\ removed.v.token = t
                  /\ players'[t].client = removed.v
            /\ (t \in DOMAIN clients' /\ t \notin DOMAIN clients) =>
                  /\ pc = "insert"
                  /\ t = minted[Len(minted)]
                  /\ hist[t] = NoHist
                  /\ t \notin DOMAIN players]_vars

\* two Tokens at the two ends of the lifecycle: one closed as a Client, one
\* promoted and then closed as a Player
C9_Witness ==
    /\ BetweenEvents
    /\ \E t, u \in ConnTokens :
          /\ hist[t].closed_as = "client" /\ hist[t].deregistered = 1
          /\ hist[u].closed_as = "player" /\ hist[u].deregistered = 1
          /\ hist[u].add_player = 1
          /\ {t, u} \cap Entries = {}

\* C10: add_player and spawn_player are invoked at most once per Token and
\* exactly once each by the end of the promoting dispatch; the Player is
\* inserted under the Token its Client was registered under; the hook runs in
\* the promoting dispatch, so between two events both counts agree.
C10_PromoteOnce ==
    \A t \in ConnTokens :
        /\ hist[t].add_player <= 1
        /\ hist[t].spawn_player <= hist[t].add_player
        /\ (hist[t].spawn_player < hist[t].add_player) =>
              (pc = "spawn" /\ token = t)
        /\ t \in DOMAIN players =>
              /\ hist[t].add_player = 1
              /\ players[t].client.token = t
              /\ players[t].client.connection = t
              /\ t \in DOMAIN registry
              /\ registry[t] = "READABLE|WRITABLE"
        /\ (pc = "end" /\ token = t /\ make_player /\ ~done) =>
              /\ snap.v.hist[t].add_player = 0
              /\ snap.v.hist[t].spawn_player = 0
              /\ hist[t].add_player = 1
              /\ hist[t].spawn_player = 1
              /\ t \in DOMAIN players
              /\ t \in DOMAIN snap.v.clients
              /\ players[t].client.token = snap.v.clients[t].token

\* a promotion is complete, hook included, while another Token is still a Client
C10_Witness ==
    /\ pc = "end"
    /\ make_player
    /\ ~done
    /\ hist[token].spawn_player = 1
    /\ snap.v.hist[token].spawn_player = 0
    /\ DOMAIN clients # {}

\* ------------------------------------------------------------- console thread
\* the variables of the main loop
main == <<pc, events, locals, pending, unique_token, maps, err, minted, hist, snap,
          drain, arrived>>

\* the index of the first newline of s, 0 when it has none
RECURSIVE FirstNewline(_, _)
FirstNewline(s, i) ==
    IF i > Len(s) THEN 0
    ELSE IF s[i] = "\n" THEN i
    ELSE FirstNewline(s, i + 1)

\* stdin.read_line(&mut out): the bytes up to and including the first newline,
\* or up to the end of input; nothing at the end of input
read_line(input) ==
    IF FirstNewline(input, 1) = 0 THEN input
    ELSE SubSeq(input, 1, FirstNewline(input, 1))

\* out.is_empty()
is_empty(out) == Len(out) = 0

\* let mut out = String::new(); stdin.read_line(&mut out)
ConsoleReadLine ==
    /\ console.pc = "read"
    /\ LET line == read_line(console.stdin)
       IN console' = [console EXCEPT
                         !.pc = "check",
                         !.out = line,
                         !.stdin = SubSeq(console.stdin, Len(line) + 1,
                                          Len(console.stdin)),
                         !.lines = IF Len(line) > 0 THEN Append(@, line) ELSE @]
    /\ UNCHANGED <<main, rcon>>

\* if !out.is_empty() { handle_command(&mut CommandSender::Console, &out) }
ConsoleHandle ==
    /\ console.pc = "check"
    /\ ~is_empty(console.out)
    /\ console' = [console EXCEPT
                      !.pc = "read",
                      !.calls = Append(@, [sender |-> "Console",
                                           command |-> console.out])]
    /\ UNCHANGED <<main, rcon>>

\* out is empty: back to the top of the loop
ConsoleSkip ==
    /\ console.pc = "check"
    /\ is_empty(console.out)
    /\ console' = [console EXCEPT !.pc = "read"]
    /\ UNCHANGED <<main, rcon>>

\* the console thread alone, use_console being true, on every bounded input
InitConsole ==
    /\ InitMain
    /\ rcon = RconOff
    /\ \E input \in Inputs : console = ConsoleOn(input)

NextConsole ==
    \/ ConsoleReadLine
    \/ ConsoleHandle
    \/ ConsoleSkip

SpecConsole == InitConsole /\ [][NextConsole]_vars

\* a line that holds a newline terminator and nothing before it
EmptyLine(line) == line = <<"\n">>
\* the lines of a sequence of lines that are not empty lines, in order
RECURSIVE NonEmptyLines(_)
NonEmptyLines(ls) ==
    IF ls = <<>> THEN <<>>
    ELSE IF EmptyLine(Head(ls)) THEN NonEmptyLines(Tail(ls))
    ELSE <<Head(ls)>> \o NonEmptyLines(Tail(ls))

\* C11 as stated: once a line is handled, the command handler has been invoked
\* exactly once per non-empty line read so far, in order, with sender "Console"
\* and the literal text of the line, and not at all for the empty lines.
C11_ConsoleLines ==
    console.pc = "read" =>
        /\ Len(console.calls) = Len(NonEmptyLines(console.lines))
        /\ \A i \in 1 .. Len(console.calls) :
              /\ console.calls[i].sender = "Console"
              /\ console.calls[i].command = NonEmptyLines(console.lines)[i]

\* what one handled event can change: the batch, the locals, both registries,
\* the Reactor registrations, the Token counter and the calls made so far
loop == <<events, locals, maps, unique_token, minted, hist, snap, drain>>

\* main has returned: nothing of the loop runs any more
Terminated == [][pc = "error" => UNCHANGED main]_vars

\* C12: an interrupted poll is retried: no event is handled, neither registry
\* changes and no error is returned; any other poll error ends the loop and is
\* the error main returns.
C12_PollErrors ==
    /\ [](pc = "interrupted" => (err = Running /\ events = <<>> /\ ~InDispatch))
    /\ [][(pc = "poll" /\ pc' = "interrupted") => UNCHANGED <<loop, err>>]_vars
    /\ [][pc = "interrupted" =>
            (pc' \in {"interrupted", "poll"} /\ UNCHANGED <<loop, err>>)]_vars
    /\ [][(pc = "poll" /\ pc' = "error") => (err' = "poll" /\ UNCHANGED loop)]_vars
    /\ [](pc = "error" => err # Running)
    /\ Terminated

\* poll was interrupted while Clients and Players exist
C12_Witness ==
    /\ pc = "interrupted"
    /\ DOMAIN clients # {}
    /\ DOMAIN players # {}

\* C13: an accept error other than WouldBlock ends the loop with that error:
\* the step inserts no Client, mints and registers nothing, the events left in
\* the batch are never handled, and the drain goes on to the next event only
\* when the queue of the listener is empty.
C13_AcceptError ==
    /\ [][(pc = "accept" /\ pc' = "error") => (err' = "accept" /\ UNCHANGED loop)]_vars
    /\ [][(pc = "accept" /\ pc' = "events") => pending = 0]_vars
    /\ [](err = "accept" =>
            /\ pc = "error"
            /\ drain.some
            /\ DOMAIN clients = drain.v.clients \cup Drained
            /\ Cardinality(Drained)
                  = drain.v.n + drain.v.arrivals - pending)
    /\ Terminated

\* accept failed after one connection of the drain was accepted, with an event
\* of the batch still unhandled and a connection still queued
C13_Witness ==
    /\ pc = "error"
    /\ err = "accept"
    /\ events # <<>>
    /\ pending > 0
    /\ Drained # {}

\* ------------------------------------------------------------- RCON task
\* tokio::spawn(async move { RCONServer::new(&rcon).await.unwrap(); }) with the
\* bind failing and the failure returned into main instead: RCONServer::new(..)?
RconBindFail_Propagate ==
    /\ rcon.state = "spawned"
    /\ pc # "error"
    /\ rcon' = [rcon EXCEPT !.state = "panicked"]
    /\ pc' = "error"
    /\ err' = "rcon"
    /\ UNCHANGED <<console, events, locals, pending, unique_token, maps, minted, hist,
                   snap, drain, arrived>>

\* RCONServer::new(&rcon) bound its port: the task serves its own sessions
RconBindOk ==
    /\ rcon.state = "spawned"
    /\ rcon' = [rcon EXCEPT !.state = "listening"]
    /\ UNCHANGED <<main, console>>

\* RCONServer::new(&rcon) returned Err: unwrap panics inside the spawned task,
\* which ends that task; the runtime keeps the panic in its JoinHandle
RconBindFail ==
    /\ rcon.state = "spawned"
    /\ rcon' = [rcon EXCEPT !.state = "panicked"]
    /\ UNCHANGED <<main, console>>

\* the main loop with rcon.enabled true
InitRcon ==
    /\ InitMain
    /\ console = ConsoleOff
    /\ rcon = RconSpawned

NextRcon ==
    \/ Next
    \/ RconBindOk
    \/ RconBindFail

SpecRcon == InitRcon /\ [][NextRcon]_vars

\* C14: the failure of the RCON startup is no error of the main loop: the step
\* of the failure changes nothing of the loop, the loop never returns an error
\* that is not its own (poll, accept, register, deregister), and after the
\* failure it is not stopped: wherever it stands it has a next step.
C14_RconLocal ==
    /\ [][(rcon.state = "spawned" /\ rcon'.state = "panicked") =>
             UNCHANGED main]_vars
    /\ [](err \in {Running, "poll", "accept", "register", "deregister"})
    /\ []((rcon.state = "panicked" /\ err = Running) =>
             (pc # "error" /\ ENABLED Next))

\* after the RCON startup failed the loop polled again and is handling an event
\* for a Client
C14_Witness ==
    /\ rcon.state = "panicked"
    /\ rcon.polled
    /\ pc = "client_done"
    /\ token \in DOMAIN clients
    /\ err = Running

\* the positions of the token arm, of the accept-drain, and the awaits of the arm
DispatchPcs == {"player", "player_done", "remove_player", "player_deregister",
                "client", "client_done", "client_deregister", "promote", "spawn",
                "end"}
AcceptPcs == {"accept", "mint", "register", "insert"}
AwaitPcs == {"player", "client", "spawn"}

\* C15: the work for one event is complete before the work for the next one
\* starts.  While the dispatch of a Token is under way the loop takes no other
\* event from the batch, runs no step of the accept-drain and mints no Token;
\* from each await of the arm (poll and process_packets of the Player, of the
\* Client, spawn_player) the next step of the loop belongs to the same dispatch;
\* and no dispatch is under way while the accept-drain runs.
C15_Sequential ==
    /\ [](pc \in DispatchPcs <=> (InDispatch /\ pc # "error"))
    /\ [](pc \in AcceptPcs => (~InDispatch /\ drain.some))
    /\ [](InDispatch => (token \in ConnTokens /\ ~drain.some))
    /\ [][(InDispatch /\ InDispatch') =>
             UNCHANGED <<token, events, snap, unique_token, minted, drain>>]_vars
    /\ [][(pc \in AwaitPcs /\ pc' # pc) =>
             (pc' \in DispatchPcs \cup {"error"} /\ token' = token)]_vars
    /\ [][(pc \in AcceptPcs /\ pc' # pc) =>
             (pc' \in AcceptPcs \cup {"events", "error"} /\ UNCHANGED snap)]_vars

\* the loop stands at the await of spawn_player with another event of the batch
\* waiting and a connection queued on the listener
C15_Witness ==
    /\ pc = "spawn"
    /\ events # <<>>
    /\ pending > 0
    /\ DOMAIN clients # {}

\* C16: a Client dispatch that observed closed and make_player both true tears
\* the connection down: at its end the Token has no Client entry, no Player
\* entry and no registration, deregister was invoked once, and neither
\* add_player nor spawn_player was invoked for it, in this dispatch or before.
C16_ClosePrecedence ==
    /\ (pc \in {"client_deregister", "promote", "spawn", "end", "error"}
          /\ InDispatch /\ done /\ make_player) =>
          /\ pc \in {"client_deregister", "end", "error"}
          /\ token \notin Entries
          /\ hist[token].add_player = 0
          /\ hist[token].spawn_player = 0
          /\ hist[token].clients_remove = 1
    /\ (pc = "end" /\ done /\ make_player) =>
          /\ token \notin DOMAIN registry
          /\ hist[token].deregister = 1
          /\ hist[token].deregistered = 1
          /\ players = snap.v.players

\* such a dispatch is complete while a Player of another Token exists
C16_Witness ==
    /\ pc = "end"
    /\ done
    /\ make_player
    /\ token \in DOMAIN snap.v.clients
    /\ DOMAIN players # {}

\* the Player branch of the dispatch under way is past its teardown
PastPlayerBranch ==
    pc \in {"client", "client_done", "client_deregister", "promote", "spawn", "end"}

\* C17: a Player dispatch that observed closed removes the Player entry,
\* invokes remove_player once for that Token and deregisters the connection,
\* all before the Client branch of the same dispatch starts; remove_player is
\* only ever invoked for the Token whose Player entry the dispatch under way
\* has just removed, and at most once per Token.
C17_PlayerClose ==
    /\ []((player_done /\ PastPlayerBranch) =>
            /\ token \in DOMAIN snap.v.players
            /\ token \notin DOMAIN players
            /\ token \notin DOMAIN registry
            /\ hist[token].players_remove = snap.v.hist[token].players_remove + 1
            /\ hist[token].remove_player = snap.v.hist[token].remove_player + 1
            /\ hist[token].deregistered = snap.v.hist[token].deregistered + 1)
    /\ [](\A t \in ConnTokens :
            /\ hist[t].remove_player <= 1
            /\ hist[t].remove_player <= hist[t].players_remove
            /\ hist[t].remove_player <= hist[t].add_player)
    /\ [][\A t \in ConnTokens :
            hist'[t].remove_player # hist[t].remove_player =>
                /\ t = token
                /\ player_done
                /\ t \in DOMAIN snap.v.players
                /\ removed.some
                /\ t \notin DOMAIN players
                /\ hist[t].players_remove = snap.v.hist[t].players_remove + 1]_vars

\* the teardown of a closed Player is complete and its dispatch has moved on to
\* the Client branch, while a Player of another Token stays
C17_Witness ==
    /\ pc = "client"
    /\ player_done
    /\ hist[token].remove_player = 1
    /\ token \notin DOMAIN registry
    /\ DOMAIN players # {}

\* the entries of Token u: its Client, its Player, its registration
EntriesOf(cl, pl, reg, u) == <<MapGet(cl, u), MapGet(pl, u), MapGet(reg, u)>>

\* C18: while an event for Token t is handled, and when its handling has ended
\* (also in an error), every other Token has the Client entry, the Player entry
\* and the registration it had when the handling started, and the Token
\* counter is the same.
C18_Frame ==
    InDispatch =>
        /\ \A u \in Tokens \ {token} :
              EntriesOf(clients, players, registry, u)
                 = EntriesOf(snap.v.clients, snap.v.players, snap.v.registry, u)
        /\ unique_token = snap.v.unique_token

\* an event closed one Token while a Client and a Player of other Tokens exist
C18_Witness ==
    /\ pc = "end"
    /\ token \notin DOMAIN registry
    /\ token \in DOMAIN snap.v.registry
    /\ DOMAIN clients # {}
    /\ DOMAIN players # {}

\* C19: for one event at most one packet processor is invoked, the Player's for
\* a Token that had a Player entry when the event was taken, else the Client's
\* for a Token that had a Client entry; the Player created by a promotion is not
\* processed with the event that promoted it: a Player is processed only in a
\* dispatch that started after its spawn_player hook had run.
C19_OneProcessor ==
    /\ [](Len(processed) <= 1)
    /\ [](~InDispatch => processed = <<>>)
    /\ []((InDispatch /\ processed = <<"player">>) =>
             (token \in DOMAIN snap.v.players
                /\ snap.v.hist[token].spawn_player = 1))
    /\ []((InDispatch /\ processed = <<"client">>) =>
             token \in DOMAIN snap.v.clients)
    /\ []((pc \in {"spawn", "end"} /\ make_player /\ ~done) =>
             (token \in DOMAIN players /\ processed = <<"client">>))
    /\ [][processed' # processed =>
             \/ processed' = <<>>
             \/ /\ processed = <<>>
                /\ pc = "player"
                /\ processed' = <<"player">>
                /\ token \in DOMAIN players
             \/ /\ processed = <<>>
                /\ pc = "client"
                /\ processed' = <<"client">>
                /\ token \in DOMAIN clients]_vars

\* a promotion is complete and only the Client was processed with its event
C19_WitnessPromotion ==
    /\ pc = "end"
    /\ make_player
    /\ ~done
    /\ token \in DOMAIN players
    /\ processed = <<"client">>

\* a Player promoted by an earlier event is processed with a later one
C19_Witness ==
    /\ pc = "player_done"
    /\ processed = <<"player">>
    /\ hist[token].spawn_player = 1
    /\ token \notin DOMAIN snap.v.clients

\* C20: a failed registration of a freshly accepted connection ends the loop
\* with that error: the step changes no entry, no registration and not the
\* counter; the Token minted for the connection has no Client entry, no Player
\* entry and no registration, and stays consumed (the counter is past it); a
\* Client is only ever inserted for a registered Token.
C20_RegisterError ==
    /\ [][(pc = "register" /\ pc' = "error") =>
             (err' = "register" /\ UNCHANGED loop)]_vars
    /\ [](err = "register" =>
            /\ pc = "error"
            /\ Len(minted) > 0
            /\ token = minted[Len(minted)]
            /\ token \notin Entries
            /\ token \notin DOMAIN registry
            /\ unique_token = token + 1
            /\ DOMAIN clients = drain.v.clients \cup (Drained \ {token}))
    /\ [](pc = "insert" => token \in DOMAIN registry)
    /\ Terminated

\* the registration of the second connection of a drain failed while a Client
\* and a Player exist
C20_Witness ==
    /\ pc = "error"
    /\ err = "register"
    /\ token > drain.v.first
    /\ DOMAIN clients # {}
    /\ DOMAIN players # {}

=============================================================================
